---- MODULE Spec2Model ----
(***************************************************************************)
(* Coastal threat alert system: alert lifecycle (backend/routes/alerts.js, *)
(* concatenated into backend/services/notificationService.js), report      *)
(* pipeline and gamification (backend/routes/reports.js), Mongoose schemas *)
(* (backend/models/index.js).                                              *)
(*                                                                         *)
(* Time is counted in hours.  Coordinates are in hundredths of a degree.   *)
(***************************************************************************)
EXTENDS Integers, Sequences, FiniteSets, TLC

VARIABLES
    now,          \* the clock, in hours
    alerts,       \* the Alert collection: id -> document
    alertCount,   \* alerts created so far
    resp,         \* response and emissions of the last alert handler
    reports,      \* the Report collection: id -> document
    users,        \* the User collection: id -> counters
    hist,         \* per user, the reports stored before the clock started
    vreq,         \* vote requests in flight: slot -> position and locals
    sreq,         \* submit requests in flight: slot -> position and locals
    notifs,       \* the Notification collection, in order of creation
    disp,         \* a sendEmergencyAlert call: position, locals, channel tasks
    bulk          \* a sendBulkAlert call: position and locals

vars == <<now, alerts, alertCount, resp, reports, users, hist, vreq, sreq,
          notifs, disp, bulk>>

alertVars == <<alerts, alertCount>>
reportVars == <<reports, users, hist>>
requestVars == <<vreq, sreq>>
dispatchVars == <<notifs, disp, bulk>>

----------------------------------------------------------------------------
(* Bounds of the model *)

MaxNow == 25
MaxAlerts == 2
MaxVotes == 2
MaxStreak == 31
MaxRecipients == 201
MaxReviews == 1
MaxVerifies == 2

(* Program constants *)

DefaultTTLHours == 24
ListLimit == 50
MaxAttachments == 5
ListDefaultRadiusKm == 100
SummaryRadiusKm == 50
AlertDefaultRadiusKm == 50
MetersPerDegree == 111319
DefaultPoints == 100
HelpfulVotePoints == 2
VerifyBonus == 25
HoursPerDay == 24
AchievementPoints == 100
WeatherWatcherReports == 10
CommunityHeroReports == 100
AccuracyExpertReports == 20
StreakMasterDays == 30
EvidencePoints == 5
EscalationThreshold == 80
AutoAlertRadiusKm == 25
AutoAlertTTLHours == 12
NearbyRadiusKm == 10
BatchSize == 100

----------------------------------------------------------------------------
(* Values *)

NoDate == -1
NoNum == -99999
Missing == "missing"
NoPoint == [lat |-> NoNum, lng |-> NoNum]
NoResp == [op |-> "none"]

AlertTypes == {"cyclone", "tsunami", "flood", "pollution", "storm_surge", "erosion", "other"}
Severities == {"low", "medium", "high", "critical"}

\* The instants the clock visits: the first two hours of every day, so that
\* T+1h, T+23h, T+24h and T+25h of an alert created at T all occur.
Instants == {t \in 0..MaxNow : t % DefaultTTLHours \in {0, 1}}

\* Places, all on the meridian 70.00E: [lat, lng] in hundredths of a degree.
Home == [lat |-> 1000, lng |-> 7000]
Near == [lat |-> 1020, lng |-> 7000]
Far == [lat |-> 1200, lng |-> 7000]
Equator == [lat |-> 0, lng |-> 7000]
Close == [lat |-> 1005, lng |-> 7000]

SubmitSlots == {1, 2}

Users == {"u1", "u2"}
UserLocation == [u \in Users |-> IF u = "u1" THEN Home ELSE Far]

Abs(x) == IF x < 0 THEN -x ELSE x

\* $geoWithin/$centerSphere with radius km / 6378.1 radians around center.
\* coords is the stored [lng, lat] pair.  All places of the model share one
\* meridian, where the great-circle distance is the latitude difference:
\* 6378.1 km * pi / 180 = 111.319 km per degree.
WithinSphere(center, radiusKm, coords) ==
    /\ coords[1] = center[1]
    /\ Abs(coords[2] - center[2]) * MetersPerDegree <= radiusKm * 100000

----------------------------------------------------------------------------
(* Alert documents (AlertSchema) *)

\* Schema defaults applied by new Alert({...}) at time t.
NewAlert(body, t) ==
    [ type |-> body.type,
      severity |-> body.severity,
      coordinates |-> <<body.coordinates.lng, body.coordinates.lat>>,
      radius |-> IF body.radius = NoNum THEN AlertDefaultRadiusKm ELSE body.radius,
      confidence |-> body.confidence,
      source |-> body.source,
      aiPrediction |-> (body.aiPrediction = "true"),
      active |-> TRUE,
      updatedAt |-> t,
      createdAt |-> t,
      expiresAt |-> t + DefaultTTLHours ]

\* AlertValid without the enum of type.
AlertValid_NoEnum(doc) ==
    /\ doc.severity \in Severities
    /\ doc.source # Missing
    /\ doc.confidence = NoNum \/ (doc.confidence >= 0 /\ doc.confidence <= 100)

\* The validators that run on save(): enum, required, min/max.
AlertValid(doc) ==
    /\ doc.type \in AlertTypes
    /\ doc.severity \in Severities
    /\ doc.source # Missing
    /\ doc.confidence = NoNum \/ (doc.confidence >= 0 /\ doc.confidence <= 100)

StoredAlertIds == DOMAIN alerts

\* The value of a user document at the path location.coordinates.
\* UserSchema declares location as { lat, lng, address, accuracy }: the path
\* has no value.
LocationCoordinates(loc) ==
    IF "coordinates" \in DOMAIN loc THEN loc.coordinates ELSE <<>>

\* User.find({ 'location.coordinates': { $geoWithin: { $centerSphere:
\* [center, km / 6378.1] } }, <opt-in>: true }); every user of the model has
\* opted in.  strictQuery is the setting of the mongoose build: when on, a
\* filter path the schema does not declare is removed from the filter, when
\* off, the filter reaches the store, where no user document has the path.
UsersGeoWithin(center, radiusKm, strictQuery) ==
    IF strictQuery
    THEN Users
    ELSE {u \in Users :
            /\ LocationCoordinates(UserLocation[u]) # <<>>
            /\ WithinSphere(center, radiusKm, LocationCoordinates(UserLocation[u]))}

\* notifyAffectedUsers: the query for the users in the alert's geofence who
\* opted into push.
AffectedUsers(doc, strictQuery) ==
    UsersGeoWithin(doc.coordinates, doc.radius, strictQuery)

\* The map callback calls NotificationService.sendPushNotification, a name that
\* alerts.js never binds to the service instance: with no user found nothing
\* is called, otherwise the first call throws and the surrounding try/catch
\* logs it; either way nobody is notified.
NotifyAffectedUsers(doc) ==
    {u \in AffectedUsers(doc, TRUE) \cup AffectedUsers(doc, FALSE) : FALSE}

\* res.status(404).json({ error: ... }) with a broadcast of the handler's kind.
NotFound_Broadcast(op) == [op |-> op, status |-> 404, events |-> <<op>>]

\* res.status(404).json({ error: ... }): the handler returns at once.
NotFound(op) == [op |-> op, status |-> 404]

\* Failed that also broadcasts the handler's event.
Failed_Broadcast(op, error) ==
    [op |-> op, status |-> 500, error |-> error, events |-> <<op>>]

\* The catch block of a handler: res.status(500).json({ error: error.message }).
Failed(op, error) == [op |-> op, status |-> 500, error |-> error]

\* The location test of create and submit: !point || !point.lat || !point.lng
\* is true without a point and also when a coordinate is 0.
HasCoordinates(point) ==
    ~(point = NoPoint \/ point.lat = 0 \/ point.lng = 0)

\* Inputs of POST /alerts
CreateBodies ==
    [ type : {"flood", "weather"},
      severity : {"low", "critical"},
      coordinates : {NoPoint, Equator, Near},
      radius : {NoNum},
      confidence : {90},
      source : {"admin", Missing},
      aiPrediction : {Missing} ]

\* router.post('/').  alert.save() validates the document, then writes it;
\* storeOk is whether the store takes the write.  The 400 response is kept
\* with the coordinates of the request it answers.
CreateAlert(body, storeOk) ==
    /\ alertCount < MaxAlerts
    /\ IF ~HasCoordinates(body.coordinates)
       THEN /\ resp' = [op |-> "create", status |-> 400, coordinates |-> body.coordinates]
            /\ UNCHANGED <<alerts, alertCount>>
       ELSE LET doc == NewAlert(body, now)
                id == alertCount + 1
            IN IF ~AlertValid(doc)
               THEN /\ resp' = Failed("create", "ValidationError")
                    /\ UNCHANGED <<alerts, alertCount>>
               ELSE IF ~storeOk
               THEN /\ resp' = Failed("create", "StoreError")
                    /\ UNCHANGED <<alerts, alertCount>>
               ELSE /\ alerts' = (id :> doc) @@ alerts
                    /\ alertCount' = id
                    /\ resp' = [op |-> "create", status |-> 201, id |-> id,
                                notified |-> NotifyAffectedUsers(doc),
                                events |-> <<"new_alert">>]
    /\ UNCHANGED <<now, dispatchVars, reportVars, requestVars>>

\* ApplyPatch that writes nothing.
ApplyPatch_Unstamped(doc, patch, t) == doc

\* { ...req.body, updatedAt: new Date() } given to findByIdAndUpdate: every
\* field of the body replaces the stored one; no validator runs.
ApplyPatch(doc, patch, t) ==
    [f \in DOMAIN doc |->
        IF f = "updatedAt" THEN t
        ELSE IF f \in DOMAIN patch THEN patch[f] ELSE doc[f]]

\* Inputs of PUT /alerts/:id
Patches ==
    { [active |-> TRUE], [severity |-> "critical"] }

\* Bodies of PUT /alerts/:id that carry a type, a severity or a confidence.
FieldPatches ==
    { [type |-> "volcano"], [severity |-> "critical"], [confidence |-> 150] }

\* Bodies of PUT /alerts/:id that carry a date: the clock's start.
DatePatches ==
    { [expiresAt |-> 0] }

\* router.put('/:id')
UpdateAlert(id, patch) ==
    /\ IF id \notin StoredAlertIds
       THEN /\ resp' = NotFound("update")
            /\ UNCHANGED alerts
       ELSE /\ alerts' = [alerts EXCEPT ![id] = ApplyPatch(@, patch, now)]
            /\ resp' = [op |-> "update", status |-> 200, id |-> id,
                        events |-> <<"alert_updated">>]
    /\ UNCHANGED <<now, dispatchVars, alertCount, reportVars, requestVars>>

\* router.delete('/:id')
DeactivateAlert(id) ==
    /\ IF id \notin StoredAlertIds
       THEN /\ resp' = NotFound("deactivate")
            /\ UNCHANGED alerts
       ELSE /\ alerts' = [alerts EXCEPT ![id] = ApplyPatch(@, [active |-> FALSE], now)]
            /\ resp' = [op |-> "deactivate", status |-> 200, id |-> id,
                        events |-> <<"alert_deactivated">>]
    /\ UNCHANGED <<now, dispatchVars, alertCount, reportVars, requestVars>>

----------------------------------------------------------------------------
(* Read paths *)

\* ActiveQuery without its expiresAt clause.
ActiveQuery_FlagOnly(doc, q, t) ==
    /\ doc.active = TRUE
    /\ q.loc # NoPoint =>
          WithinSphere(<<q.loc.lng, q.loc.lat>>, q.radius, doc.coordinates)
    /\ q.severity # Missing => doc.severity = q.severity
    /\ q.type # Missing => doc.type = q.type

\* The query document of GET /alerts, at time t.
ActiveQuery(doc, q, t) ==
    /\ doc.active = TRUE
    /\ (doc.expiresAt # NoDate /\ doc.expiresAt > t) \/ doc.expiresAt = NoDate
    /\ q.loc # NoPoint =>
          WithinSphere(<<q.loc.lng, q.loc.lat>>, q.radius, doc.coordinates)
    /\ q.severity # Missing => doc.severity = q.severity
    /\ q.type # Missing => doc.type = q.type

\* sort({ severity: -1, createdAt: -1 }): severity is a String path, so the
\* descending sort is the descending order of the strings.
StringRank(sev) ==
    CASE sev = "critical" -> 1
      [] sev = "high" -> 2
      [] sev = "low" -> 3
      [] sev = "medium" -> 4
      [] OTHER -> 5

SortedBefore(a, b) ==
    \/ StringRank(a.severity) > StringRank(b.severity)
    \/ /\ StringRank(a.severity) = StringRank(b.severity)
       /\ a.createdAt >= b.createdAt

\* Every order of the matching ids that the sort allows.
SortedListings(ids) ==
    {s \in [1..Cardinality(ids) -> ids] :
        /\ \A i, j \in DOMAIN s : i # j => s[i] # s[j]
        /\ \A i, j \in DOMAIN s : i < j => SortedBefore(alerts[s[i]], alerts[s[j]])}

Limit(s, n) == IF Len(s) <= n THEN s ELSE SubSeq(s, 1, n)

\* Inputs of GET /alerts
ListQueries ==
    [ loc : {NoPoint, Home}, radius : {ListDefaultRadiusKm},
      severity : {Missing, "critical"}, type : {Missing} ]

\* router.get('/')
ListAlerts(q) ==
    /\ \E s \in SortedListings({i \in StoredAlertIds : ActiveQuery(alerts[i], q, now)}) :
          resp' = [op |-> "list", status |-> 200, query |-> q,
                   ids |-> Limit(s, ListLimit)]
    /\ UNCHANGED <<now, dispatchVars, alertVars, reportVars, requestVars>>

\* The nearby-alerts query of sendDailySummary.
SummaryQuery(doc, u) ==
    /\ doc.active = TRUE
    /\ WithinSphere(<<UserLocation[u].lng, UserLocation[u].lat>>, SummaryRadiusKm,
                    doc.coordinates)

\* NotificationService.sendDailySummary
SendDailySummary(u) ==
    /\ resp' = [op |-> "summary", status |-> 200, user |-> u,
                nearby_alerts |->
                    Cardinality({i \in StoredAlertIds : SummaryQuery(alerts[i], u)})]
    /\ UNCHANGED <<now, dispatchVars, alertVars, reportVars, requestVars>>

----------------------------------------------------------------------------
(* Report documents (ReportSchema) *)

ReportTypes == {"erosion", "pollution", "weather", "wildlife", "infrastructure",
                "tsunami", "other"}

\* Schema defaults applied by new Report({...}) at time t.
NewReport(userId, body, t) ==
    [ userId |-> userId,
      type |-> body.type,
      severity |-> body.severity,
      description |-> body.description,
      location |-> <<body.location.lng, body.location.lat>>,
      attachments |-> body.attachments,
      aiConfidence |-> NoNum,
      verified |-> FALSE,
      verifiedBy |-> Missing,
      status |-> "pending",
      votes |-> [helpful |-> 0, notHelpful |-> 0, voters |-> <<>>],
      comments |-> <<>>,
      createdAt |-> t ]

\* The validators that run on report.save(): enum, required.
ReportValid(doc) ==
    /\ doc.type \in ReportTypes
    /\ doc.severity \in Severities
    /\ doc.description # Missing

Includes(seq, x) == \E k \in DOMAIN seq : seq[k] = x

----------------------------------------------------------------------------
(* Notification documents (NotificationSchema) *)

NotificationTypes == {"alert", "report", "achievement", "system", "emergency",
                      "weather", "community"}

Channels == {"push", "sms", "email"}

\* A per-channel delivery record that nothing has written.
ChannelUnset == [set |-> FALSE, sent |-> FALSE, sentAt |-> NoDate, error |-> Missing]

\* Schema defaults applied by new Notification({...}) at time t.
NewNotification(userId, n, t) ==
    [ userId |-> userId,
      title |-> n.title,
      type |-> n.type,
      priority |-> n.priority,
      channels |-> [c \in Channels |-> ChannelUnset],
      read |-> FALSE,
      createdAt |-> t ]

\* The validators that run on dbNotification.save(): required, enum.
NotificationValid(doc) ==
    /\ doc.title # Missing
    /\ doc.type \in NotificationTypes
    /\ doc.priority \in Severities

\* user.fcmToken: UserSchema declares no such path, so the hydrated document
\* never has the property and the FCM branch of sendPushNotification is
\* skipped.
HasFcmToken(u) == FALSE

\* PushStored storing the document twice.
PushStored_Twice(u, n, t, storeOk) ==
    LET doc == NewNotification(u, n, t) IN
    IF users[u].notifications.push /\ storeOk /\ NotificationValid(doc)
    THEN Append(Append(notifs, doc), doc)
    ELSE notifs

\* sendPushNotification(userId, notification), from its first save on, for a
\* user who is stored: the Notification collection after the call.  storeOk
\* is whether the store accepts the write.  Without the FCM branch the delivery
\* records stay as created and the second save writes nothing.
PushStored(u, n, t, storeOk) ==
    LET doc == NewNotification(u, n, t) IN
    IF users[u].notifications.push /\ storeOk /\ NotificationValid(doc)
    THEN Append(notifs, doc)
    ELSE notifs

----------------------------------------------------------------------------
(* PUT /reports/:id/verify *)

\* req.user.userId of the verify request: the expert.
VerifierId == "u2"

\* router.put('/:id/verify'): the report update, the author's bonus and the
\* notification to the author.
VerifyReport(id, verified, storeOk) ==
    /\ IF id \notin DOMAIN reports
       THEN /\ resp' = NotFound("verify")
            /\ UNCHANGED <<reports, users, notifs>>
       ELSE LET author == reports[id].userId IN
            /\ reports' = [reports EXCEPT
                   ![id].verified = verified,
                   ![id].verifiedBy = VerifierId,
                   ![id].status = IF verified THEN "verified" ELSE "rejected"]
            /\ IF verified
               THEN /\ users' = [users EXCEPT ![author].points = @ + VerifyBonus]
                    /\ notifs' = PushStored(author,
                           [title |-> "Report Verified!", type |-> "achievement",
                            priority |-> "medium"], now, storeOk)
               ELSE UNCHANGED <<users, notifs>>
            /\ resp' = [op |-> "verify", status |-> 200, id |-> id,
                        verified |-> verified]
    /\ UNCHANGED <<now, alertVars, hist, requestVars, disp, bulk>>

----------------------------------------------------------------------------
(* POST /reports/:id/comments *)

\* router.post('/:id/comments'): the comment is pushed onto the report, and
\* the author is notified unless the commenter is the author.
CommentReport(id, u, storeOk) ==
    /\ IF id \notin DOMAIN reports
       THEN /\ resp' = NotFound("comment")
            /\ UNCHANGED <<reports, notifs>>
       ELSE LET author == reports[id].userId IN
            /\ reports' = [reports EXCEPT
                   ![id].comments = Append(@, [userId |-> u, createdAt |-> now])]
            /\ IF author # u
               THEN notifs' = PushStored(author,
                        [title |-> "New Comment on Your Report", type |-> "community",
                         priority |-> "low"], now, storeOk)
               ELSE UNCHANGED notifs
            /\ resp' = [op |-> "comment", status |-> 200, id |-> id, user |-> u]
    /\ UNCHANGED <<now, alertVars, users, hist, requestVars, disp, bulk>>

----------------------------------------------------------------------------
(* POST /reports/:id/vote.  The handler awaits three times: the read, the   *)
(* save and the author's bonus; requests interleave at these points.        *)

VoteDone(status, req) ==
    [pc |-> "done", status |-> status, user |-> req.user, helpful |-> req.helpful,
     id |-> req.id]

\* VoteRead without the already-voted check.
VoteRead_Unchecked(r, u, helpful, id) ==
    /\ vreq[r].pc = "idle"
    /\ IF r = 1 THEN TRUE ELSE vreq[r - 1].pc # "idle"
    /\ LET req == [user |-> u, helpful |-> helpful, id |-> id] IN
       IF id \notin DOMAIN reports
       THEN vreq' = [vreq EXCEPT ![r] = VoteDone(404, req)]
       ELSE vreq' = [vreq EXCEPT ![r] =
                [pc |-> "save", user |-> u, helpful |-> helpful, id |-> id,
                 author |-> reports[id].userId,
                 tally |-> IF helpful THEN reports[id].votes.helpful + 1
                           ELSE reports[id].votes.notHelpful + 1]]
    /\ UNCHANGED <<now, dispatchVars, alertVars, resp, reportVars, sreq>>

\* Report.findById, the 404 and already-voted returns, and the in-memory
\* update of the tally.
VoteRead(r, u, helpful, id) ==
    /\ vreq[r].pc = "idle"
    /\ IF r = 1 THEN TRUE ELSE vreq[r - 1].pc # "idle"
    /\ LET req == [user |-> u, helpful |-> helpful, id |-> id] IN
       IF id \notin DOMAIN reports
       THEN vreq' = [vreq EXCEPT ![r] = VoteDone(404, req)]
       ELSE IF Includes(reports[id].votes.voters, u)
       THEN vreq' = [vreq EXCEPT ![r] = VoteDone(400, req)]
       ELSE vreq' = [vreq EXCEPT ![r] =
                [pc |-> "save", user |-> u, helpful |-> helpful, id |-> id,
                 author |-> reports[id].userId,
                 tally |-> IF helpful THEN reports[id].votes.helpful + 1
                           ELSE reports[id].votes.notHelpful + 1]]
    /\ UNCHANGED <<now, dispatchVars, alertVars, resp, reportVars, sreq>>

\* report.save(): the modified tally path is written with the value computed
\* from the read ($set), the voter is appended to the stored array ($push).
VoteSave(r) ==
    /\ vreq[r].pc = "save"
    /\ LET req == vreq[r] IN
       /\ reports' = [reports EXCEPT
              ![req.id].votes.helpful = IF req.helpful THEN req.tally ELSE @,
              ![req.id].votes.notHelpful = IF req.helpful THEN @ ELSE req.tally,
              ![req.id].votes.voters = Append(@, req.user)]
       /\ vreq' = [vreq EXCEPT ![r] =
              IF req.helpful THEN [req EXCEPT !.pc = "award"] ELSE VoteDone(200, req)]
    /\ UNCHANGED <<now, dispatchVars, alertVars, resp, users, hist, sreq>>

\* User.findByIdAndUpdate(report.userId, { $inc: { points: 2 } })
VoteAward(r) ==
    /\ vreq[r].pc = "award"
    /\ users' = [users EXCEPT ![vreq[r].author].points = @ + HelpfulVotePoints]
    /\ vreq' = [vreq EXCEPT ![r] = VoteDone(200, vreq[r])]
    /\ UNCHANGED <<now, dispatchVars, alertVars, resp, reports, hist, sreq>>

----------------------------------------------------------------------------
(* Report counts (Report.countDocuments).  hist[u] counts the reports of u   *)
(* stored before the clock started: .today were created at hour 0,          *)
(* .yesterday the day before, .old earlier.                                  *)

\* new Date().setHours(0, 0, 0, 0): the clock starts at a midnight.
DayStart(t) == (t \div HoursPerDay) * HoursPerDay

ReportsOf(u) == {id \in DOMAIN reports : reports[id].userId = u}

\* countDocuments({ userId, createdAt: { $gte: today } })
TodayReports(u, t) ==
    (IF DayStart(t) <= 0 THEN hist[u].today ELSE 0)
    + Cardinality({id \in ReportsOf(u) : reports[id].createdAt >= DayStart(t)})

\* countDocuments({ userId, createdAt: { $gte: yesterday, $lt: today } })
YesterdayReports(u, t) ==
    (IF DayStart(t) = 0 THEN hist[u].yesterday
     ELSE IF DayStart(t) = HoursPerDay THEN hist[u].today ELSE 0)
    + Cardinality({id \in ReportsOf(u) :
          /\ reports[id].createdAt >= DayStart(t) - HoursPerDay
          /\ reports[id].createdAt < DayStart(t)})

TotalReports(u) ==
    hist[u].old + hist[u].yesterday + hist[u].today + Cardinality(ReportsOf(u))

VerifiedReports(u) ==
    hist[u].verified + Cardinality({id \in ReportsOf(u) : reports[id].verified})

WeatherReports(u) ==
    hist[u].weather + Cardinality({id \in ReportsOf(u) : reports[id].type = "weather"})

----------------------------------------------------------------------------
(* Gamification: checkAndUpdateStreak and checkAchievements.  Each reads     *)
(* the user and the counts, then saves the user.                             *)

StreakSnapshot(u, t) ==
    [streak |-> users[u].streak,
     today |-> TodayReports(u, t),
     yesterday |-> YesterdayReports(u, t)]

\* StreakWrite that keeps the streak when yesterday has no report.
StreakWrite_NoReset(us, u, snap) ==
    IF snap.today > 0 /\ snap.yesterday > 0
    THEN [us EXCEPT ![u].streak = snap.streak + 1]
    ELSE us

\* user.streak += 1 or user.streak = 1 on the copy read, then user.save().
StreakWrite(us, u, snap) ==
    IF snap.today > 0
    THEN [us EXCEPT ![u].streak = IF snap.yesterday > 0 THEN snap.streak + 1 ELSE 1]
    ELSE us

AchSnapshot(u) ==
    [badges |-> users[u].badges,
     points |-> users[u].points,
     streak |-> users[u].streak,
     total |-> TotalReports(u),
     verified |-> VerifiedReports(u),
     weather |-> WeatherReports(u)]

Badge(cond, name) == IF cond THEN <<name>> ELSE <<>>

\* NewAchievements without the not-yet-held tests.
NewAchievements_Unguarded(snap) ==
    Badge(snap.total = 1, "First Reporter")
    \o Badge(snap.weather >= WeatherWatcherReports, "Weather Watcher")
    \o Badge(snap.total >= CommunityHeroReports, "Community Hero")
    \o Badge(snap.total >= AccuracyExpertReports /\ 5 * snap.verified >= 4 * snap.total,
             "Accuracy Expert")
    \o Badge(snap.streak >= StreakMasterDays, "Streak Master")

\* The achievements array, in the order of the threshold checks.
\* verifiedReports / totalReports >= 0.8 is 5 * verified >= 4 * total.
NewAchievements(snap) ==
    Badge(snap.total = 1 /\ ~Includes(snap.badges, "First Reporter"), "First Reporter")
    \o Badge(snap.weather >= WeatherWatcherReports /\ ~Includes(snap.badges, "Weather Watcher"),
             "Weather Watcher")
    \o Badge(snap.total >= CommunityHeroReports /\ ~Includes(snap.badges, "Community Hero"),
             "Community Hero")
    \o Badge(/\ snap.total >= AccuracyExpertReports
             /\ 5 * snap.verified >= 4 * snap.total
             /\ ~Includes(snap.badges, "Accuracy Expert"),
             "Accuracy Expert")
    \o Badge(snap.streak >= StreakMasterDays /\ ~Includes(snap.badges, "Streak Master"),
             "Streak Master")

\* AchWrite storing the new achievements as the whole badge list.
AchWrite_OnlyNew(us, u, snap) ==
    LET new == NewAchievements(snap) IN
    [us EXCEPT ![u].badges = new,
               ![u].points = snap.points + Len(new) * AchievementPoints]

\* user.badges.push(...achievements) is saved as a $push onto the stored
\* array; user.points += 100 * n is saved as the value computed from the copy
\* read.  The notification callbacks use req, which is not in scope in this
\* helper: each rejects and nothing is sent.
AchWrite(us, u, snap) ==
    LET new == NewAchievements(snap) IN
    IF Len(new) > 0
    THEN [us EXCEPT ![u].badges = @ \o new,
                    ![u].points = snap.points + Len(new) * AchievementPoints]
    ELSE us

\* checkAndUpdateStreak(userId), run on its own.
CheckAndUpdateStreak(u) ==
    /\ users[u].streak < MaxStreak
    /\ users' = StreakWrite(users, u, StreakSnapshot(u, now))
    /\ resp' = [op |-> "streak", user |-> u]
    /\ UNCHANGED <<now, dispatchVars, alertVars, reports, hist, requestVars>>

\* checkAchievements(userId), run on its own.
CheckAchievements(u) ==
    /\ users' = AchWrite(users, u, AchSnapshot(u))
    /\ resp' = [op |-> "achievements", user |-> u,
                awarded |-> NewAchievements(AchSnapshot(u))]
    /\ UNCHANGED <<now, dispatchVars, alertVars, reports, hist, requestVars>>

----------------------------------------------------------------------------
(* POST /reports: submit.  The handler awaits after each step below;         *)
(* sreq[s] holds the position and the locals of the request in slot s.       *)

\* pointsMap[type] || 10
BasePoints(type) ==
    CASE type = "erosion" -> 15
      [] type = "pollution" -> 20
      [] type = "weather" -> 25
      [] type = "wildlife" -> 10
      [] type = "infrastructure" -> 15
      [] type = "tsunami" -> 50
      [] OTHER -> 10

\* severityMultiplier[severity], in tenths.
SeverityTenths(severity) ==
    CASE severity = "low" -> 10
      [] severity = "medium" -> 12
      [] severity = "high" -> 15
      [] severity = "critical" -> 20

\* TotalPoints with the multiplier applied to the base points only.
TotalPoints_BaseOnly(type, severity, attachments) ==
    (BasePoints(type) * SeverityTenths(severity)) \div 10 + attachments * EvidencePoints

\* Math.floor((basePoints + evidenceBonus) * severityMultiplier[severity]).
\* The floating-point product floors to the exact value for every base,
\* attachment count and multiplier of the tables.
TotalPoints(type, severity, attachments) ==
    ((BasePoints(type) + attachments * EvidencePoints) * SeverityTenths(severity)) \div 10

NextReportId == Cardinality(DOMAIN reports) + 1

\* The catch block of submit: res.status(500).json({ error: error.message }).
SubmitFailed(u, error) ==
    [pc |-> "done", status |-> 500, user |-> u, error |-> error]

\* Validation of the parsed location, new Report({...}) and report.save(),
\* which validates the document, then writes it; storeOk is whether the store
\* takes the write.  The 400 response is kept with the location of the request
\* it answers.
SubmitSave(s, u, body, storeOk) ==
    /\ sreq[s].pc = "idle"
    /\ IF ~HasCoordinates(body.location)
       THEN /\ sreq' = [sreq EXCEPT ![s] =
                   [pc |-> "done", status |-> 400, user |-> u, location |-> body.location]]
            /\ UNCHANGED reports
       ELSE LET doc == NewReport(u, body, now) IN
            IF ~ReportValid(doc)
            THEN /\ sreq' = [sreq EXCEPT ![s] = SubmitFailed(u, "ValidationError")]
                 /\ UNCHANGED reports
            ELSE IF ~storeOk
            THEN /\ sreq' = [sreq EXCEPT ![s] = SubmitFailed(u, "StoreError")]
                 /\ UNCHANGED reports
            ELSE /\ reports' = (NextReportId :> doc) @@ reports
                 /\ sreq' = [sreq EXCEPT ![s] =
                        [pc |-> "ai", user |-> u, id |-> NextReportId]]
    /\ UNCHANGED <<now, dispatchVars, alertVars, resp, users, hist, vreq>>

\* aiService.analyzeReport(report): a confidence, or NoNum when the call
\* fails; the analysis is stored with a second report.save().
SubmitAI(s, confidence) ==
    /\ sreq[s].pc = "ai"
    /\ reports' = [reports EXCEPT ![sreq[s].id].aiConfidence = confidence]
    /\ sreq' = [sreq EXCEPT ![s].pc = "award"]
    /\ UNCHANGED <<now, dispatchVars, alertVars, resp, users, hist, vreq>>

\* User.findByIdAndUpdate(userId, { $inc: { points: totalPoints } }, { new: true })
SubmitAward(s) ==
    /\ sreq[s].pc = "award"
    /\ LET rep == reports[sreq[s].id]
           total == TotalPoints(rep.type, rep.severity, rep.attachments)
           u == sreq[s].user
       IN /\ users' = [users EXCEPT ![u].points = @ + total]
          /\ sreq' = [sreq EXCEPT ![s] =
                 [pc |-> "streak", user |-> u, id |-> sreq[s].id,
                  pointsEarned |-> total, newTotal |-> users[u].points + total]]
    /\ UNCHANGED <<now, dispatchVars, alertVars, resp, reports, hist, vreq>>

\* checkAndUpdateStreak: the reads.
SubmitStreakRead(s) ==
    /\ sreq[s].pc = "streak"
    /\ sreq' = [sreq EXCEPT ![s] =
           [pc |-> "streakSave", user |-> @.user, id |-> @.id,
            pointsEarned |-> @.pointsEarned, newTotal |-> @.newTotal,
            snap |-> StreakSnapshot(@.user, now)]]
    /\ UNCHANGED <<now, dispatchVars, alertVars, resp, reportVars, vreq>>

\* checkAndUpdateStreak: user.save().
SubmitStreakSave(s) ==
    /\ sreq[s].pc = "streakSave"
    /\ users' = StreakWrite(users, sreq[s].user, sreq[s].snap)
    /\ sreq' = [sreq EXCEPT ![s] =
           [pc |-> "ach", user |-> @.user, id |-> @.id,
            pointsEarned |-> @.pointsEarned, newTotal |-> @.newTotal]]
    /\ UNCHANGED <<now, dispatchVars, alertVars, resp, reports, hist, vreq>>

\* checkAchievements: the reads.
SubmitAchRead(s) ==
    /\ sreq[s].pc = "ach"
    /\ sreq' = [sreq EXCEPT ![s] =
           [pc |-> "achSave", user |-> @.user, id |-> @.id,
            pointsEarned |-> @.pointsEarned, newTotal |-> @.newTotal,
            snap |-> AchSnapshot(@.user)]]
    /\ UNCHANGED <<now, dispatchVars, alertVars, resp, reportVars, vreq>>

\* checkAchievements: user.save().
SubmitAchSave(s) ==
    /\ sreq[s].pc = "achSave"
    /\ users' = AchWrite(users, sreq[s].user, sreq[s].snap)
    /\ sreq' = [sreq EXCEPT ![s] =
           [pc |-> "escalate", user |-> @.user, id |-> @.id,
            pointsEarned |-> @.pointsEarned, newTotal |-> @.newTotal]]
    /\ UNCHANGED <<now, dispatchVars, alertVars, resp, reports, hist, vreq>>

\* new Alert({...}) of autoGenerateAlert, from the report, at time t.
AutoAlert(rep, t) ==
    [ type |-> rep.type,
      severity |-> rep.severity,
      coordinates |-> rep.location,
      radius |-> AutoAlertRadiusKm,
      confidence |-> rep.aiConfidence,
      source |-> "Community Report (AI Verified)",
      aiPrediction |-> TRUE,
      active |-> TRUE,
      updatedAt |-> t,
      createdAt |-> t,
      expiresAt |-> t + AutoAlertTTLHours ]

\* ShouldEscalate on the severity alone.
ShouldEscalate_SeverityOnly(rep) == rep.severity = "critical"

\* The guard of the handler: severity === 'critical' &&
\* report.aiAnalysis?.confidence > 80 (false without an analysis).
ShouldEscalate(rep) ==
    /\ rep.severity = "critical"
    /\ rep.aiConfidence # NoNum
    /\ rep.aiConfidence > EscalationThreshold

\* The guard of the handler and autoGenerateAlert: its own confidence test
\* (confidence < 80, false without a confidence) and alert.save(), whose validation error the helper catches and logs.  The
\* broadcast that follows the save uses req, which is not in scope there.
SubmitEscalate(s) ==
    /\ sreq[s].pc = "escalate"
    /\ LET rep == reports[sreq[s].id]
           doc == AutoAlert(rep, now)
       IN IF /\ ShouldEscalate(rep)
             /\ ~(rep.aiConfidence # NoNum /\ rep.aiConfidence < EscalationThreshold)
             /\ AlertValid(doc)
          THEN /\ alertCount < MaxAlerts
               /\ alerts' = (alertCount + 1 :> doc) @@ alerts
               /\ alertCount' = alertCount + 1
          ELSE UNCHANGED alertVars
    /\ sreq' = [sreq EXCEPT ![s].pc = "notify"]
    /\ UNCHANGED <<now, dispatchVars, resp, reportVars, vreq>>

\* notifyNearbyUsers: the users within 10 km who opted into community
\* notifications, the author excepted (every user of the model has opted in).
NearbyUsers(rep, strictQuery) ==
    UsersGeoWithin(rep.location, NearbyRadiusKm, strictQuery) \ {rep.userId}

\* The map callback uses req, which is not in scope in this helper: with no
\* user found nothing is called, otherwise the first call throws and the
\* helper's try/catch logs it; either way nobody is notified.
NotifyNearbyUsers(rep) ==
    IF rep.severity = "low"
    THEN {}
    ELSE {u \in NearbyUsers(rep, TRUE) \cup NearbyUsers(rep, FALSE) : FALSE}

\* notifyNearbyUsers, the new_report broadcast and the 201 response.
SubmitRespond(s) ==
    /\ sreq[s].pc = "notify"
    /\ sreq' = [sreq EXCEPT ![s] =
           [pc |-> "done", status |-> 201, user |-> @.user, id |-> @.id,
            pointsEarned |-> @.pointsEarned, newTotal |-> @.newTotal,
            notified |-> NotifyNearbyUsers(reports[@.id]),
            events |-> <<"new_report">>]]
    /\ UNCHANGED <<now, dispatchVars, alertVars, resp, reportVars, vreq>>

----------------------------------------------------------------------------
(* NotificationService.sendEmergencyAlert.  The call awaits the user, then   *)
(* starts one task per opted-in channel and awaits them all; the tasks       *)
(* proceed independently.  disp.task[c] is the position of the task of       *)
(* channel c: "none" when it was not started, "ok" / "failed" once the       *)
(* channel function has returned true / false.                               *)

\* The alert handed to the dispatcher: its title becomes the notification's.
DispatchAlerts == {[title |-> "Tsunami warning"], [title |-> Missing]}

\* Attempted with every channel, whatever the preferences.
Attempted_All(prefs) == Channels

\* The channels whose send function sendEmergencyAlert calls: the opted-in
\* ones (phone and email are required paths of UserSchema, so user.phone and
\* user.email are set for every stored user).
Attempted(prefs) == {c \in Channels : prefs[c]}

\* The call, up to await User.findById(userId).
EmergencyStart(u, alert) ==
    /\ disp.pc = "idle"
    /\ disp' = [pc |-> "find", smsClient |-> disp.smsClient, user |-> u, alert |-> alert,
                attempts |-> {}, task |-> [c \in Channels |-> "none"], result |-> FALSE]
    /\ UNCHANGED <<now, alertVars, resp, reportVars, requestVars, notifs, bulk>>

\* The user is read (a failing read or a missing user returns false), and the
\* send function of every opted-in channel is called.  Each runs up to its
\* first await: sendPushNotification to its User.findById, sendEmail to
\* sendMail, sendSMS to messages.create, or to its return of false when no
\* SMS client is configured.
EmergencyDispatch(storeOk) ==
    /\ disp.pc = "find"
    /\ IF ~storeOk \/ disp.user \notin Users
       THEN disp' = [disp EXCEPT !.pc = "done", !.result = FALSE]
       ELSE LET called == Attempted(users[disp.user].notifications) IN
            disp' = [disp EXCEPT
                !.pc = "channels",
                !.attempts = called,
                !.task = [c \in Channels |->
                    IF c \notin called THEN "none"
                    ELSE IF c = "push" THEN "find"
                    ELSE IF c = "sms" /\ ~disp.smsClient THEN "failed"
                    ELSE "sending"]]
    /\ UNCHANGED <<now, alertVars, resp, reportVars, requestVars, notifs, bulk>>

\* sendPushNotification: User.findById and the preference test.
PushFind(storeOk) ==
    /\ disp.pc = "channels"
    /\ disp.task.push = "find"
    /\ disp' = [disp EXCEPT !.task.push =
           IF storeOk /\ users[disp.user].notifications.push THEN "save" ELSE "failed"]
    /\ UNCHANGED <<now, alertVars, resp, reportVars, requestVars, notifs, bulk>>

\* sendPushNotification: new Notification({...}), the first save and the
\* websocket emit.  An error of the save is caught and the function returns
\* false.  The FCM branch needs user.fcmToken.
PushSave(storeOk) ==
    /\ disp.pc = "channels"
    /\ disp.task.push = "save"
    /\ LET n == [title |-> disp.alert.title, type |-> "emergency", priority |-> "critical"]
           stored == PushStored(disp.user, n, now, storeOk)
       IN /\ notifs' = stored
          /\ disp' = [disp EXCEPT !.task.push =
                 IF stored = notifs THEN "failed"
                 ELSE IF HasFcmToken(disp.user) THEN "fcm"
                 ELSE "resave"]
    /\ UNCHANGED <<now, alertVars, resp, reportVars, requestVars, bulk>>

\* sendPushNotification: the second save, of a document nothing has modified,
\* and the return of true.
PushResave ==
    /\ disp.pc = "channels"
    /\ disp.task.push = "resave"
    /\ disp' = [disp EXCEPT !.task.push = "ok"]
    /\ UNCHANGED <<now, alertVars, resp, reportVars, requestVars, notifs, bulk>>

\* sendSMS: messages.create resolves (true) or rejects (caught, false).
SmsSend(ok) ==
    /\ disp.pc = "channels"
    /\ disp.task.sms = "sending"
    /\ disp' = [disp EXCEPT !.task.sms = IF ok THEN "ok" ELSE "failed"]
    /\ UNCHANGED <<now, alertVars, resp, reportVars, requestVars, notifs, bulk>>

\* sendEmail: sendMail resolves (true) or rejects (caught, false).
EmailSend(ok) ==
    /\ disp.pc = "channels"
    /\ disp.task.email = "sending"
    /\ disp' = [disp EXCEPT !.task.email = IF ok THEN "ok" ELSE "failed"]
    /\ UNCHANGED <<now, alertVars, resp, reportVars, requestVars, notifs, bulk>>

\* await Promise.all(promises); return true.  No channel function rejects.
EmergencyDone ==
    /\ disp.pc = "channels"
    /\ \A c \in Channels : disp.task[c] \in {"none", "ok", "failed"}
    /\ disp' = [disp EXCEPT !.pc = "done", !.result = TRUE]
    /\ UNCHANGED <<now, alertVars, resp, reportVars, requestVars, notifs, bulk>>

----------------------------------------------------------------------------
(* NotificationService.sendBulkAlert.  The sends of a batch are calls of     *)
(* sendEmergencyAlert that run concurrently; Promise.all observes only that  *)
(* all of them have settled, so bulk.inflight counts those still running    *)
(* and bulk.persisted those that stored their Notification.                  *)

Min(a, b) == IF a < b THEN a ELSE b

\* Batches whose slices stop one element early.
Batches_Short(userIds) ==
    [b \in 1..((Len(userIds) + BatchSize - 1) \div BatchSize) |->
        SubSeq(userIds, (b - 1) * BatchSize + 1, Min(b * BatchSize - 1, Len(userIds)))]

\* for (i = 0; i < userIds.length; i += batchSize)
\*     batches.push(userIds.slice(i, i + batchSize))
Batches(userIds) ==
    [b \in 1..((Len(userIds) + BatchSize - 1) \div BatchSize) |->
        SubSeq(userIds, (b - 1) * BatchSize + 1, Min(b * BatchSize, Len(userIds)))]

\* The recipient lists handed to sendBulkAlert: n distinct user ids, n around
\* the multiples of the batch size.
RecipientCounts ==
    {n \in 0..MaxRecipients : n % BatchSize \in {0, 1, BatchSize - 1}}

RecipientLists == {[i \in 1..n |-> i] : n \in RecipientCounts}

\* The call, up to the head of the batch loop.
BulkStart(userIds) ==
    /\ bulk.pc = "idle"
    /\ bulk' = [pc |-> "start", userIds |-> userIds, k |-> 0, dispatched |-> <<>>,
                inflight |-> 0, persisted |-> 0, result |-> FALSE]
    /\ UNCHANGED <<now, alertVars, resp, reportVars, requestVars, notifs, disp>>

\* The head of the loop: batch.map calls sendEmergencyAlert for every user id
\* of the next batch, or the loop ends and the call returns true.
BulkNextBatch ==
    /\ bulk.pc \in {"start", "next"}
    /\ LET batches == Batches(bulk.userIds) IN
       IF bulk.k = Len(batches)
       THEN bulk' = [bulk EXCEPT !.pc = "done", !.result = TRUE]
       ELSE bulk' = [bulk EXCEPT !.pc = "batch",
                                 !.k = @ + 1,
                                 !.dispatched = @ \o batches[bulk.k + 1],
                                 !.inflight = Len(batches[bulk.k + 1])]
    /\ UNCHANGED <<now, alertVars, resp, reportVars, requestVars, notifs, disp>>

\* One sendEmergencyAlert of the batch settles; it resolves whether or not
\* its Notification was stored, and its value is not looked at.
BulkSendSettles(stored) ==
    /\ bulk.pc = "batch"
    /\ bulk.inflight > 0
    /\ bulk' = [bulk EXCEPT !.inflight = @ - 1,
                            !.persisted = IF stored THEN @ + 1 ELSE @]
    /\ UNCHANGED <<now, alertVars, resp, reportVars, requestVars, notifs, disp>>

\* BatchSettled that does not wait for the sends.
BatchSettled_Any == TRUE

\* await Promise.all(promises): every send of the batch has settled.
BatchSettled == bulk.inflight = 0

\* Promise.all resolves and the inter-batch timer is set.
BulkBatchDone ==
    /\ bulk.pc = "batch"
    /\ BatchSettled
    /\ bulk' = [bulk EXCEPT !.pc = "delay"]
    /\ UNCHANGED <<now, alertVars, resp, reportVars, requestVars, notifs, disp>>

\* setTimeout(resolve, 1000) fires.
BulkDelayElapsed ==
    /\ bulk.pc = "delay"
    /\ bulk' = [bulk EXCEPT !.pc = "next"]
    /\ UNCHANGED <<now, alertVars, resp, reportVars, requestVars, notifs, disp>>

----------------------------------------------------------------------------
(* Environment *)

\* The clock moves on to a later instant; resp is the response of the last
\* handler that ran at the current instant.
Tick ==
    /\ \E t \in Instants : t > now /\ now' = t
    /\ resp' = NoResp
    /\ UNCHANGED <<alertVars, reportVars, requestVars, dispatchVars>>

\* expiresAt carries a TTL index (expireAfterSeconds: 0): the store's TTL
\* monitor removes an expired alert at some time after expiresAt.
TTLDelete(id) ==
    /\ id \in StoredAlertIds
    /\ alerts[id].expiresAt # NoDate
    /\ alerts[id].expiresAt <= now
    /\ alerts' = [i \in StoredAlertIds \ {id} |-> alerts[i]]
    /\ UNCHANGED <<now, dispatchVars, alertCount, resp, reportVars, requestVars>>

----------------------------------------------------------------------------
(* Alert lifecycle specification *)

\* A new account (UserSchema defaults).
NewUser ==
    [points |-> DefaultPoints, streak |-> 0, badges |-> <<>>,
     notifications |-> [push |-> TRUE, sms |-> TRUE, email |-> TRUE]]

NoHistory == [old |-> 0, yesterday |-> 0, today |-> 0, weather |-> 0, verified |-> 0]

Idle == [pc |-> "idle"]

\* No notification stored, no dispatcher call in progress.
DispatcherIdle ==
    /\ notifs = <<>>
    /\ disp = Idle
    /\ bulk = Idle

Init ==
    /\ now = 0
    /\ alerts = <<>>
    /\ alertCount = 0
    /\ resp = NoResp
    /\ reports = <<>>
    /\ users = [u \in Users |-> NewUser]
    /\ hist = [u \in Users |-> NoHistory]
    /\ vreq = [r \in 1..MaxVotes |-> Idle]
    /\ sreq = [r \in SubmitSlots |-> Idle]
    /\ DispatcherIdle

Next ==
    \/ \E body \in CreateBodies, ok \in BOOLEAN : CreateAlert(body, ok)
    \/ \E id \in 1..MaxAlerts, patch \in Patches : UpdateAlert(id, patch)
    \/ \E id \in 1..MaxAlerts : DeactivateAlert(id)
    \/ \E q \in ListQueries : ListAlerts(q)
    \/ \E u \in Users : SendDailySummary(u)
    \/ \E id \in 1..MaxAlerts : TTLDelete(id)
    \/ Tick

Spec == Init /\ [][Next]_vars

----------------------------------------------------------------------------
(* Update specification: alerts that pass validation, patched with bodies   *)
(* that carry a date                                                         *)

UpdateBodies ==
    [ type : {"flood"}, severity : {"low"}, coordinates : {Near}, radius : {NoNum},
      confidence : {90}, source : {"admin"}, aiPrediction : {Missing} ]

NextUpdate ==
    \/ \E body \in UpdateBodies : CreateAlert(body, TRUE)
    \/ \E id \in 1..MaxAlerts, patch \in DatePatches : UpdateAlert(id, patch)
    \/ Tick

SpecUpdate == Init /\ [][NextUpdate]_vars

----------------------------------------------------------------------------
(* Voting specification: one stored report, concurrent vote requests *)

\* A report as submit stores it: written by u1, no analysis, no votes yet.
StoredReport ==
    NewReport("u1", [type |-> "weather", severity |-> "high", description |-> "text",
                     location |-> Near, attachments |-> 0], 0)

InitVote ==
    /\ now = 0
    /\ alerts = <<>>
    /\ alertCount = 0
    /\ resp = NoResp
    /\ reports = (1 :> StoredReport)
    /\ users = [u \in Users |-> NewUser]
    /\ hist = [u \in Users |-> NoHistory]
    /\ vreq = [r \in 1..MaxVotes |-> Idle]
    /\ sreq = [r \in SubmitSlots |-> Idle]
    /\ DispatcherIdle

NextVote ==
    \/ \E r \in 1..MaxVotes, u \in Users, helpful \in BOOLEAN, id \in {1, 2} :
          VoteRead(r, u, helpful, id)
    \/ \E r \in 1..MaxVotes : VoteSave(r)
    \/ \E r \in 1..MaxVotes : VoteAward(r)

SpecVote == InitVote /\ [][NextVote]_vars

----------------------------------------------------------------------------
(* Submit specification: one submission by a new user, over every report    *)
(* type, severity, attachment count and scoring outcome                      *)

SubmitBodies ==
    [ type : ReportTypes, severity : Severities, description : {"text"},
      location : {Near}, attachments : 0..MaxAttachments ]
    \cup
    [ type : {"weather", "volcano"}, severity : {"critical", "severe"},
      description : {"text", Missing}, location : {NoPoint, Equator, Near},
      attachments : {0} ]

\* analyzeReport fails (NoNum) or returns a confidence.
AIOutcomes == {NoNum, 75, 80, 81, 85}

NextSubmit ==
    \/ \E u \in {"u1"}, body \in SubmitBodies, ok \in BOOLEAN : SubmitSave(1, u, body, ok)
    \/ \E c \in AIOutcomes : SubmitAI(1, c)
    \/ SubmitAward(1)
    \/ SubmitStreakRead(1)
    \/ SubmitStreakSave(1)
    \/ SubmitAchRead(1)
    \/ SubmitAchSave(1)
    \/ SubmitEscalate(1)
    \/ SubmitRespond(1)
    \/ Tick

SpecSubmit == Init /\ [][NextSubmit]_vars

----------------------------------------------------------------------------
(* Gamification specification: the two helpers applied to a user whose      *)
(* counters are drawn from the cases of the rules                            *)

Histories ==
    {h \in [old : {0, 19, 99}, yesterday : {0, 1}, today : {0, 1},
            weather : {0, 10}, verified : {0, 16}] :
        /\ h.weather <= h.old + h.yesterday + h.today
        /\ h.verified <= h.old + h.yesterday + h.today}

InitGam ==
    /\ now = 0
    /\ alerts = <<>>
    /\ alertCount = 0
    /\ resp = NoResp
    /\ reports = <<>>
    /\ \E st \in {0, 7, 29} :
          users = [u \in Users |-> IF u = "u1" THEN [NewUser EXCEPT !.streak = st]
                                   ELSE NewUser]
    /\ \E h \in Histories :
          hist = [u \in Users |-> IF u = "u1" THEN h ELSE NoHistory]
    /\ vreq = [r \in 1..MaxVotes |-> Idle]
    /\ sreq = [r \in SubmitSlots |-> Idle]
    /\ DispatcherIdle

NextGam ==
    \/ \E u \in Users : CheckAndUpdateStreak(u)
    \/ \E u \in Users : CheckAchievements(u)
    \/ Tick

SpecGam == InitGam /\ [][NextGam]_vars

----------------------------------------------------------------------------
(* Race specification: the same user submits two reports at once, while     *)
(* another user votes on the first stored report and an expert verifies it  *)

\* The user has reported on nine earlier days, the last of them yesterday,
\* always about the weather, and holds a streak of 3.
RaceHistory == [old |-> 8, yesterday |-> 1, today |-> 0, weather |-> 9, verified |-> 0]
RaceStreak == 3

RaceBodies ==
    [ type : {"weather"}, severity : {"high"}, description : {"text"},
      location : {Near}, attachments : {0} ]

InitRace ==
    /\ now = 0
    /\ alerts = <<>>
    /\ alertCount = 0
    /\ resp = NoResp
    /\ reports = <<>>
    /\ users = [u \in Users |-> IF u = "u1" THEN [NewUser EXCEPT !.streak = RaceStreak]
                                ELSE NewUser]
    /\ hist = [u \in Users |-> IF u = "u1" THEN RaceHistory ELSE NoHistory]
    /\ vreq = [r \in 1..MaxVotes |-> Idle]
    /\ sreq = [r \in SubmitSlots |-> Idle]
    /\ DispatcherIdle

NextRace ==
    \/ \E s \in SubmitSlots, body \in RaceBodies : SubmitSave(s, "u1", body, TRUE)
    \/ \E s \in SubmitSlots : SubmitAI(s, 85)
    \/ \E s \in SubmitSlots : SubmitAward(s)
    \/ \E s \in SubmitSlots : SubmitStreakRead(s)
    \/ \E s \in SubmitSlots : SubmitStreakSave(s)
    \/ \E s \in SubmitSlots : SubmitAchRead(s)
    \/ \E s \in SubmitSlots : SubmitAchSave(s)
    \/ \E s \in SubmitSlots : SubmitEscalate(s)
    \/ \E s \in SubmitSlots : SubmitRespond(s)
    \/ VoteRead(1, "u2", TRUE, 1)
    \/ VoteSave(1)
    \/ VoteAward(1)
    \/ resp = NoResp /\ \E ok \in BOOLEAN : VerifyReport(1, TRUE, ok)

SpecRace == InitRace /\ [][NextRace]_vars

----------------------------------------------------------------------------
(* Dispatch specification: one sendEmergencyAlert call, over every choice   *)
(* of the user's channel preferences and every outcome of the gateways      *)

InitDispatch ==
    /\ now = 0
    /\ alerts = <<>>
    /\ alertCount = 0
    /\ resp = NoResp
    /\ reports = <<>>
    /\ \E prefs \in [Channels -> BOOLEAN] :
          users = [u \in Users |-> IF u = "u1" THEN [NewUser EXCEPT !.notifications = prefs]
                                   ELSE NewUser]
    /\ hist = [u \in Users |-> NoHistory]
    /\ vreq = [r \in 1..MaxVotes |-> Idle]
    /\ sreq = [r \in SubmitSlots |-> Idle]
    /\ notifs = <<>>
    /\ \E configured \in BOOLEAN : disp = [pc |-> "idle", smsClient |-> configured]
    /\ bulk = Idle

NextDispatch ==
    \/ \E u \in {"u1", "nobody"}, alert \in DispatchAlerts : EmergencyStart(u, alert)
    \/ \E ok \in BOOLEAN : EmergencyDispatch(ok)
    \/ \E ok \in BOOLEAN : PushFind(ok)
    \/ \E ok \in BOOLEAN : PushSave(ok)
    \/ PushResave
    \/ \E ok \in BOOLEAN : SmsSend(ok)
    \/ \E ok \in BOOLEAN : EmailSend(ok)
    \/ EmergencyDone

SpecDispatch == InitDispatch /\ [][NextDispatch]_vars

----------------------------------------------------------------------------
(* Bulk specification: one sendBulkAlert call *)

NextBulk ==
    \/ \E userIds \in RecipientLists : BulkStart(userIds)
    \/ BulkNextBatch
    \/ \E stored \in BOOLEAN : BulkSendSettles(stored)
    \/ BulkBatchDone
    \/ BulkDelayElapsed

SpecBulk == Init /\ [][NextBulk]_vars

----------------------------------------------------------------------------
(* Intake specification: alert creation and one submission, over requests   *)
(* that fail validation, requests the store refuses and requests that pass  *)

IntakeBodies ==
    [ type : {"weather", "volcano"}, severity : {"critical", "severe"},
      description : {"text", Missing}, location : {NoPoint, Equator, Near},
      attachments : {0} ]

NextIntake ==
    \/ \E body \in CreateBodies, ok \in BOOLEAN : CreateAlert(body, ok)
    \/ \E body \in IntakeBodies, ok \in BOOLEAN : SubmitSave(1, "u1", body, ok)
    \/ \E c \in {NoNum, 85} : SubmitAI(1, c)
    \/ SubmitAward(1)
    \/ SubmitStreakRead(1)
    \/ SubmitStreakSave(1)
    \/ SubmitAchRead(1)
    \/ SubmitAchSave(1)
    \/ SubmitEscalate(1)
    \/ SubmitRespond(1)

SpecIntake == Init /\ [][NextIntake]_vars

----------------------------------------------------------------------------
(* Review specification: one stored report of u1 is verified, commented and *)
(* voted on, alerts are created, updated and deactivated; requests name     *)
(* stored and unknown ids                                                   *)

ReviewAlertIds == {1, MaxAlerts + 1}

NextReview ==
    \/ \E id \in {1, 2}, verified \in BOOLEAN, ok \in BOOLEAN :
          /\ verified => /\ users["u1"].points < DefaultPoints + MaxReviews * VerifyBonus
                         /\ Len(notifs) < MaxReviews
          /\ VerifyReport(id, verified, ok)
    \/ \E id \in {1, 2}, u \in Users, ok \in BOOLEAN :
          /\ Len(reports[1].comments) < MaxReviews
          /\ Len(notifs) < MaxReviews
          /\ CommentReport(id, u, ok)
    \/ \E u \in Users, helpful \in BOOLEAN, id \in {1, 2} : VoteRead(1, u, helpful, id)
    \/ VoteSave(1)
    \/ VoteAward(1)
    \/ \E body \in UpdateBodies : CreateAlert(body, TRUE)
    \/ \E id \in ReviewAlertIds : UpdateAlert(id, [severity |-> "critical"])
    \/ \E id \in ReviewAlertIds : DeactivateAlert(id)

SpecReview == InitVote /\ [][NextReview]_vars

----------------------------------------------------------------------------
(* Nearby specification: u2 submits a report 5.5 km or 22 km from the place *)
(* of u1                                                                    *)

NearbyBodies ==
    [ type : {"weather"}, severity : Severities, description : {"text"},
      location : {Close, Near}, attachments : {0} ]

NextNearby ==
    \/ \E body \in NearbyBodies, ok \in BOOLEAN : SubmitSave(1, "u2", body, ok)
    \/ \E c \in {NoNum, 85} : SubmitAI(1, c)
    \/ SubmitAward(1)
    \/ SubmitStreakRead(1)
    \/ SubmitStreakSave(1)
    \/ SubmitAchRead(1)
    \/ SubmitAchSave(1)
    \/ SubmitEscalate(1)
    \/ SubmitRespond(1)

SpecNearby == Init /\ [][NextNearby]_vars

----------------------------------------------------------------------------
(* Geofence specification: the two user queries, applied to centers and     *)
(* radii around the places of the users                                     *)

GeoCenters == {<<7000, lat>> : lat \in {980, 990, 995, 1000, 1005, 1009, 1010, 1020, 1200}}
GeoRadii == {1, 10, 25, 50, 250}

\* The User.find of notifyAffectedUsers for an alert at center with the
\* given radius.
QueryAffectedUsers(center, radiusKm, strictQuery) ==
    /\ resp' = [op |-> "affected", center |-> center, radius |-> radiusKm,
                found |-> AffectedUsers([coordinates |-> center, radius |-> radiusKm],
                                        strictQuery)]
    /\ UNCHANGED <<now, dispatchVars, alertVars, reportVars, requestVars>>

\* The User.find of notifyNearbyUsers for a report of author at center.
QueryNearbyUsers(center, author, strictQuery) ==
    /\ resp' = [op |-> "nearby", center |-> center, radius |-> NearbyRadiusKm,
                author |-> author,
                found |-> NearbyUsers([location |-> center, userId |-> author],
                                      strictQuery)]
    /\ UNCHANGED <<now, dispatchVars, alertVars, reportVars, requestVars>>

NextGeo ==
    \/ \E center \in GeoCenters, radiusKm \in GeoRadii, strictQuery \in BOOLEAN :
          QueryAffectedUsers(center, radiusKm, strictQuery)
    \/ \E center \in GeoCenters, author \in Users, strictQuery \in BOOLEAN :
          QueryNearbyUsers(center, author, strictQuery)

SpecGeo == Init /\ [][NextGeo]_vars

----------------------------------------------------------------------------
(* Amend specification: alerts are created, generated by the submission of  *)
(* a critical report, and updated in their type, severity and confidence    *)

AmendBodies ==
    [ type : {"tsunami"}, severity : {"critical"}, description : {"text"},
      location : {Near}, attachments : {0} ]

NextAmend ==
    \/ \E body \in UpdateBodies : CreateAlert(body, TRUE)
    \/ \E id \in 1..MaxAlerts, patch \in FieldPatches : UpdateAlert(id, patch)
    \/ \E body \in AmendBodies : SubmitSave(1, "u1", body, TRUE)
    \/ \E c \in {NoNum, 85} : SubmitAI(1, c)
    \/ SubmitAward(1)
    \/ SubmitStreakRead(1)
    \/ SubmitStreakSave(1)
    \/ SubmitAchRead(1)
    \/ SubmitAchSave(1)
    \/ SubmitEscalate(1)
    \/ SubmitRespond(1)

SpecAmend == Init /\ [][NextAmend]_vars

----------------------------------------------------------------------------
(* First-reports specification: the first two submissions of u1, who has no  *)
(* report and no badge, interleaved at every await                          *)

NextFirst ==
    \/ \E s \in SubmitSlots, body \in RaceBodies : SubmitSave(s, "u1", body, TRUE)
    \/ \E s \in SubmitSlots, c \in {NoNum, 85} : SubmitAI(s, c)
    \/ \E s \in SubmitSlots : SubmitAward(s)
    \/ \E s \in SubmitSlots : SubmitStreakRead(s)
    \/ \E s \in SubmitSlots : SubmitStreakSave(s)
    \/ \E s \in SubmitSlots : SubmitAchRead(s)
    \/ \E s \in SubmitSlots : SubmitAchSave(s)
    \/ \E s \in SubmitSlots : SubmitEscalate(s)
    \/ \E s \in SubmitSlots : SubmitRespond(s)

SpecFirst == Init /\ [][NextFirst]_vars

----------------------------------------------------------------------------
(* Verify specification: repeated verify requests on the stored report of   *)
(* u1, while time passes                                                    *)

NextVerify ==
    \/ \E id \in {1, 2}, verified \in BOOLEAN, ok \in BOOLEAN :
          /\ verified => users["u1"].points < DefaultPoints + MaxVerifies * VerifyBonus
          /\ VerifyReport(id, verified, ok)
    \/ Tick

SpecVerify == InitVote /\ [][NextVerify]_vars

----------------------------------------------------------------------------
(* Claims about the alert lifecycle *)

\* The filters of a list query other than the two activity clauses.
FiltersAdmit(doc, q) ==
    /\ q.loc = NoPoint \/ WithinSphere(<<q.loc.lng, q.loc.lat>>, q.radius, doc.coordinates)
    /\ q.severity = Missing \/ q.severity = doc.severity
    /\ q.type = Missing \/ q.type = doc.type

Listed(id) == \E k \in DOMAIN resp.ids : resp.ids[k] = id

\* C1: an alert that still has the default expiry (createdAt + 24h) and whose
\* active flag is still true is returned by an active-alerts list query (whose
\* other filters admit it) exactly when the query runs before createdAt + 24h.
C1_DefaultTTLWindow ==
    resp.op = "list" =>
        \A id \in DOMAIN alerts :
            LET a == alerts[id] IN
            (a.active /\ a.expiresAt = a.createdAt + 24 /\ FiltersAdmit(a, resp.query))
                => (Listed(id) <=> now < a.createdAt + 24)

\* A list query at T2+1h returns the alert created at T2 and leaves out the
\* still active alert created at T1 <= now - 24h.
C1_Witness ==
    /\ resp.op = "list"
    /\ \E i, j \in DOMAIN alerts :
          /\ alerts[i].active /\ alerts[i].expiresAt = alerts[i].createdAt + 24
          /\ FiltersAdmit(alerts[i], resp.query)
          /\ now >= alerts[i].createdAt + 24 /\ ~Listed(i)
          /\ alerts[j].active /\ alerts[j].expiresAt = alerts[j].createdAt + 24
          /\ now = alerts[j].createdAt + 1 /\ Listed(j)

\* C2: no read path that selects active alerts returns or counts an alert
\* with expiresAt <= now: the list query returns none, and the daily summary
\* counts at most the unexpired active alerts near the user.
C2_ReadPathsSkipExpired ==
    /\ resp.op = "list" =>
          \A id \in DOMAIN alerts : Listed(id) => alerts[id].expiresAt > now
    /\ resp.op = "summary" =>
          resp.nearby_alerts <=
              Cardinality({id \in DOMAIN alerts :
                  /\ alerts[id].active
                  /\ alerts[id].expiresAt > now
                  /\ WithinSphere(<<UserLocation[resp.user].lng, UserLocation[resp.user].lat>>,
                                  SummaryRadiusKm, alerts[id].coordinates)})

\* C3: an alert whose active flag is false (deactivate succeeded) keeps it
\* false in every later state in which it is stored.
C3_DeactivatedStaysInactive ==
    [][\A id \in (DOMAIN alerts) \cap (DOMAIN alerts') :
          alerts[id].active = FALSE => alerts'[id].active = FALSE]_vars

\* C19: in every reachable state every stored Alert has an expiresAt, and
\* it is later than its createdAt.
C19_ExpiresAfterCreated ==
    \A id \in DOMAIN alerts :
        /\ alerts[id].expiresAt # NoDate
        /\ alerts[id].expiresAt > alerts[id].createdAt

\* C20: a deactivate of an alert that is already deactivated succeeds and
\* leaves the stored alert as the first deactivate left it.
C20_DeactivateTwiceNoOp ==
    [][( /\ resp'.op = "deactivate"
         /\ resp'.status = 200
         /\ now' = now
         /\ DOMAIN alerts' = DOMAIN alerts
         /\ resp'.id \in DOMAIN alerts
         /\ ~alerts[resp'.id].active )
       => alerts'[resp'.id] = alerts[resp'.id]]_vars

\* A step of the create, update or deactivate handler.
AlertHandlerStep ==
    /\ now' = now
    /\ DOMAIN alerts \subseteq DOMAIN alerts'
    /\ resp'.op \in {"create", "update", "deactivate"}

BroadcastKind(op) ==
    CASE op = "create" -> "new_alert"
      [] op = "update" -> "alert_updated"
      [] op = "deactivate" -> "alert_deactivated"

\* C21: a successful create, update or deactivate emits exactly one broadcast,
\* of the matching kind, and the change it announces is in the store (the
\* alert is stored, stamped with the time of the request, inactive after a
\* deactivate); an unsuccessful one emits none and changes nothing.
C21_BroadcastAfterPersist ==
    [][AlertHandlerStep =>
          IF resp'.status \in {200, 201}
          THEN /\ resp'.events = <<BroadcastKind(resp'.op)>>
               /\ resp'.id \in DOMAIN alerts'
               /\ alerts'[resp'.id].updatedAt = now
               /\ resp'.op = "create" =>
                     (resp'.id \notin DOMAIN alerts /\ alerts'[resp'.id].createdAt = now)
               /\ resp'.op = "deactivate" => ~alerts'[resp'.id].active
          ELSE /\ "events" \notin DOMAIN resp'
               /\ alerts' = alerts]_vars

\* An update of an alert created earlier has been stored and broadcast.
C21_Witness ==
    /\ resp.op = "update"
    /\ resp.status = 200
    /\ resp.events = <<"alert_updated">>
    /\ resp.id \in DOMAIN alerts
    /\ alerts[resp.id].updatedAt = now
    /\ alerts[resp.id].createdAt < now

Notified(r) == IF "notified" \in DOMAIN r THEN r.notified ELSE {}

\* The users located within radiusKm of the point center = <<lng, lat>>, by
\* the great-circle distance along the meridian all places share.
LocatedWithin(center, radiusKm) ==
    {u \in Users :
        /\ UserLocation[u].lng = center[1]
        /\ Abs(UserLocation[u].lat - center[2]) * 111319 <= radiusKm * 100000}

\* C22: a successful create, update or deactivate notifies every user located
\* within the geofence of the alert.
C22_GeofenceNotified ==
    [][(AlertHandlerStep /\ resp'.status \in {200, 201}) =>
          Notified(resp') = LocatedWithin(alerts'[resp'.id].coordinates,
                                          alerts'[resp'.id].radius)]_vars

----------------------------------------------------------------------------
(* Claims about voting *)

Occurrences(seq, x) == Cardinality({k \in DOMAIN seq : seq[k] = x})

\* C5: a vote request by a user who is in the report's voter set when the
\* handler reads the report ends at once with the already-voted rejection
\* (status 400), and neither the report (tallies, voter set) nor any user's
\* points change.
C5_SecondVoteRejected ==
    [][\A r \in 1..MaxVotes :
          ( /\ vreq[r].pc = "idle"
            /\ vreq'[r].pc # "idle"
            /\ vreq'[r].id \in DOMAIN reports
            /\ Includes(reports[vreq'[r].id].votes.voters, vreq'[r].user) )
          => ( /\ vreq'[r].pc = "done"
               /\ vreq'[r].status = 400
               /\ reports' = reports
               /\ users' = users )]_vars

\* A second vote by the same user has been rejected; the report holds the
\* first vote only.
C5_Witness ==
    \E r \in 1..MaxVotes :
        /\ vreq[r].pc = "done"
        /\ vreq[r].status = 400
        /\ reports[1].votes.voters = <<vreq[r].user>>
        /\ reports[1].votes.helpful + reports[1].votes.notHelpful = 1

\* C6: in every reachable state a user occurs at most once in a report's
\* voter set.
C6_VoterOnce ==
    \A id \in DOMAIN reports : \A u \in Users :
        Occurrences(reports[id].votes.voters, u) <= 1

Accepted == {r \in 1..MaxVotes : vreq[r].pc = "done" /\ vreq[r].status = 200}

\* C7: once all vote requests have completed, the accepted ones being by
\* distinct users, the helpful and not-helpful tallies count the accepted
\* helpful and not-helpful votes, the voter set is the set of accepted voters,
\* and the author has received 2 points per helpful vote.
C7_TallyMatchesVotes ==
    ( /\ \A r \in 1..MaxVotes : vreq[r].pc \in {"idle", "done"}
      /\ \A r1, r2 \in Accepted : r1 # r2 => vreq[r1].user # vreq[r2].user )
    => LET v == reports[1].votes
           yes == {r \in Accepted : vreq[r].helpful}
       IN /\ v.helpful = Cardinality(yes)
          /\ v.notHelpful = Cardinality(Accepted \ yes)
          /\ {v.voters[k] : k \in DOMAIN v.voters} = {vreq[r].user : r \in Accepted}
          /\ Len(v.voters) = Cardinality(Accepted)
          /\ users["u1"].points = 100 + 2 * Cardinality(yes)

----------------------------------------------------------------------------
(* Claims about gamification *)

\* C9: a streak update for a user with a report today sets the streak to its
\* prior value plus 1 when the user has a report yesterday and to 1 otherwise;
\* with no report today it leaves the streak unchanged.
C9_StreakRule ==
    [][resp'.op = "streak" =>
          LET u == resp'.user
              today == TodayReports(u, now)
              yesterday == YesterdayReports(u, now)
          IN /\ (today >= 1 /\ yesterday >= 1) => users'[u].streak = users[u].streak + 1
             /\ (today >= 1 /\ yesterday = 0) => users'[u].streak = 1
             /\ today = 0 => users'[u].streak = users[u].streak]_vars

\* A streak update has just reset the streak of a user with a report today
\* and none yesterday.
C9_Witness ==
    /\ resp.op = "streak"
    /\ TodayReports(resp.user, now) >= 1
    /\ YesterdayReports(resp.user, now) = 0
    /\ users[resp.user].streak = 1

\* C10: an achievement evaluation that directly follows an evaluation of the
\* same user (counters and badges unchanged in between) adds no badge and
\* credits no points.
C10_EvaluationIdempotent ==
    [][( /\ resp.op = "achievements"
         /\ resp'.op = "achievements"
         /\ resp'.user = resp.user )
       => users' = users]_vars

\* An evaluation that awarded nothing to a user who holds badges from an
\* earlier evaluation.
C10_Witness ==
    /\ resp.op = "achievements"
    /\ resp.awarded = <<>>
    /\ Len(users[resp.user].badges) > 0

----------------------------------------------------------------------------
(* Claims about submit *)

AutoGenerated == {id \in DOMAIN alerts : alerts[id].aiPrediction}

\* C4: when a submission has completed, exactly one auto-generated Alert
\* exists if the report is critical with AI confidence 85, none if the
\* confidence is 75, the severity is not critical or AI scoring failed, and
\* never more than one.
C4_EscalatesExactlyOnce ==
    /\ Cardinality(AutoGenerated) <= 1
    /\ (sreq[1].pc = "done" /\ sreq[1].status = 201) =>
          LET rep == reports[sreq[1].id] IN
          /\ (rep.severity = "critical" /\ rep.aiConfidence = 85)
                => Cardinality(AutoGenerated) = 1
          /\ (rep.aiConfidence = 75 \/ rep.severity # "critical" \/ rep.aiConfidence = NoNum)
                => Cardinality(AutoGenerated) = 0

\* C23: a submission whose AI scoring failed still succeeds: its report is
\* stored in pending status with no analysis result; once it has completed
\* the response is 201, the points earned and the First Reporter bonus are on
\* the user's total, the streak is 1 (the clock still being on the day of the
\* report), and no Alert has been generated.
C23_AIFailureNonFatal ==
    ( /\ sreq[1].pc \notin {"idle", "ai"}
      /\ "id" \in DOMAIN sreq[1]
      /\ reports[sreq[1].id].aiConfidence = NoNum )
    => /\ reports[sreq[1].id].status = "pending"
       /\ AutoGenerated = {}
       /\ sreq[1].pc = "done" =>
             /\ sreq[1].status = 201
             /\ sreq[1].pointsEarned > 0
             /\ users["u1"].badges = <<"First Reporter">>
             /\ users["u1"].points = 100 + sreq[1].pointsEarned + 100
             /\ now < 24 => users["u1"].streak = 1

\* A critical tsunami report whose AI scoring failed has been submitted.
C23_Witness ==
    /\ sreq[1].pc = "done"
    /\ sreq[1].status = 201
    /\ reports[sreq[1].id].aiConfidence = NoNum
    /\ reports[sreq[1].id].severity = "critical"
    /\ reports[sreq[1].id].type = "tsunami"
    /\ users["u1"].streak = 1
    /\ AutoGenerated = {}

C8_Base(type) ==
    CASE type = "weather" -> 25
      [] type = "tsunami" -> 50
      [] type = "pollution" -> 20
      [] type \in {"erosion", "infrastructure"} -> 15
      [] OTHER -> 10

C8_Tenths(severity) ==
    CASE severity = "low" -> 10
      [] severity = "medium" -> 12
      [] severity = "high" -> 15
      [] severity = "critical" -> 20

\* C8: the award step of a submission adds to the author's points exactly
\* p = floor((basePoints(type) + 5 * attachments) * multiplier(severity)),
\* that is 10 * p <= (base + 5 * attachments) * tenths < 10 * (p + 1), and
\* reports p as the points earned, whatever the outcome of AI scoring.
C8_PointsFormula ==
    [][\A s \in SubmitSlots :
          (sreq[s].pc = "award" /\ sreq'[s].pc = "streak") =>
              LET rep == reports[sreq[s].id]
                  u == sreq[s].user
                  p == users'[u].points - users[u].points
                  x == (C8_Base(rep.type) + 5 * rep.attachments) * C8_Tenths(rep.severity)
              IN /\ 10 * p <= x
                 /\ x < 10 * (p + 1)
                 /\ sreq'[s].pointsEarned = p]_vars

\* A weather report of high severity with 3 attachments, AI scoring having
\* failed, has earned 60 points.
C8_Witness ==
    \E s \in SubmitSlots :
        /\ sreq[s].pc = "done"
        /\ sreq[s].status = 201
        /\ reports[sreq[s].id].type = "weather"
        /\ reports[sreq[s].id].severity = "high"
        /\ reports[sreq[s].id].attachments = 3
        /\ reports[sreq[s].id].aiConfidence = NoNum
        /\ sreq[s].pointsEarned = 60

----------------------------------------------------------------------------
(* Claims about concurrent updates of a user's counters *)

\* C11: in every reachable state each badge name occurs at most once in a
\* user's badge set (so its bonus is credited at most once), also when two
\* achievement evaluations of the same user interleave.
C11_BadgeOnce ==
    \A u \in Users : \A k1, k2 \in DOMAIN users[u].badges :
        users[u].badges[k1] = users[u].badges[k2] => k1 = k2

SubmitsDone == {s \in SubmitSlots : sreq[s].pc = "done" /\ sreq[s].status = 201}

RaceQuiet ==
    /\ \A s \in SubmitSlots : sreq[s].pc \in {"idle", "done"}
    /\ \A r \in 1..MaxVotes : vreq[r].pc \in {"idle", "done"}

RECURSIVE SumEarned(_)
SumEarned(S) ==
    IF S = {} THEN 0
    ELSE LET s == CHOOSE x \in S : TRUE IN sreq[s].pointsEarned + SumEarned(S \ {s})

\* The amounts credited to u1: the award of each completed submission, 2 per
\* accepted helpful vote on its report, 25 for the verification, 100 per badge
\* pushed onto its badge set.
Credited ==
    SumEarned(SubmitsDone)
    + 2 * Cardinality({r \in 1..MaxVotes :
              vreq[r].pc = "done" /\ vreq[r].status = 200 /\ vreq[r].helpful})
    + (IF resp.op = "verify" /\ resp.status = 200 /\ resp.verified THEN 25 ELSE 0)
    + 100 * Len(users["u1"].badges)

\* C12: once the concurrent operations that credit a user have all completed,
\* the user's points are the initial 100 plus the sum of the credited amounts:
\* no credit is lost and none is applied twice.
C12_NoCreditLost ==
    RaceQuiet => users["u1"].points = 100 + Credited

\* C13: once concurrent submissions of one user (who reported yesterday, and
\* whose streak was 3) have completed, the streak is what the same streak
\* updates give when run one after another: 3 plus one per submission.
C13_StreakSerializable ==
    RaceQuiet => users["u1"].streak = 3 + Cardinality(SubmitsDone)

----------------------------------------------------------------------------
(* Claims about the notification dispatcher *)

\* C14: a dispatch to a stored user attempts exactly the channels the user
\* has opted into, and once it has completed every one of them has been tried
\* to its end (sent or failed), whatever happened on the other channels.
C14_OptedInChannels ==
    (disp.pc = "channels" \/ (disp.pc = "done" /\ disp.result))
    => LET optedIn == {c \in Channels : users[disp.user].notifications[c]} IN
       /\ disp.attempts = optedIn
       /\ \A c \in Channels : disp.task[c] = "none" <=> c \notin optedIn
       /\ disp.pc = "done" => \A c \in optedIn : disp.task[c] \in {"ok", "failed"}

\* A user opted into push and email but not SMS: exactly 2 channels were
\* attempted, push failed and email still went out.
C14_Witness ==
    /\ disp.pc = "done"
    /\ disp.result
    /\ Cardinality(disp.attempts) = 2
    /\ ~users[disp.user].notifications.sms
    /\ disp.task.push = "failed"
    /\ disp.task.email = "ok"

\* C15: after a dispatch has completed, for every channel that was attempted
\* a stored Notification of the user holds the attempt's outcome in its
\* per-channel record: sent = true with a timestamp on success, sent = false
\* with the error on failure.
C15_OutcomeRecorded ==
    (disp.pc = "done" /\ disp.result)
    => \A c \in disp.attempts :
          \E k \in DOMAIN notifs :
              /\ notifs[k].userId = disp.user
              /\ notifs[k].channels[c].set
              /\ disp.task[c] = "ok" =>
                    (notifs[k].channels[c].sent /\ notifs[k].channels[c].sentAt # NoDate)
              /\ disp.task[c] = "failed" =>
                    (~notifs[k].channels[c].sent /\ notifs[k].channels[c].error # Missing)

RECURSIVE Flatten(_)
Flatten(seqs) == IF seqs = <<>> THEN <<>> ELSE Head(seqs) \o Flatten(Tail(seqs))

\* C16: the batches of a recipient list are consecutive slices of exactly 100
\* recipients, the last one of 1 to 100, whose concatenation is the list; the
\* recipients dispatched to so far are the concatenation of the batches
\* started, and when the call has returned every recipient has been
\* dispatched to exactly once, whatever the outcomes of the sends.
C16_BatchesPartition ==
    bulk.pc # "idle" =>
        LET batches == Batches(bulk.userIds)
            n == Len(batches)
        IN /\ \A b \in 1..(n - 1) : Len(batches[b]) = 100
           /\ n > 0 => Len(batches[n]) \in 1..100
           /\ Flatten(batches) = bulk.userIds
           /\ bulk.dispatched = Flatten(SubSeq(batches, 1, bulk.k))
           /\ bulk.pc = "done" => bulk.dispatched = bulk.userIds

\* A call with 201 recipients has returned, some of whose sends stored no
\* Notification: three batches were dispatched.
C16_Witness ==
    /\ bulk.pc = "done"
    /\ Len(bulk.userIds) = 201
    /\ bulk.k = 3
    /\ bulk.persisted < 201
    /\ bulk.dispatched = bulk.userIds

\* C17: at most 100 sends are in flight; a batch is dispatched only at the
\* head of the loop with no send in flight; the head of the loop is reached
\* again only after the inter-batch delay has elapsed, and the delay starts
\* only once every send of the batch has settled.
C17_BatchesSequential ==
    [][(bulk.pc # "idle" /\ bulk'.pc # "idle") =>
          /\ bulk'.inflight <= 100
          /\ Len(bulk'.dispatched) > Len(bulk.dispatched) =>
                (bulk.inflight = 0 /\ bulk.pc \in {"start", "next"})
          /\ (bulk'.pc = "next" /\ bulk.pc # "next") => bulk.pc = "delay"
          /\ (bulk'.pc = "delay" /\ bulk.pc # "delay") =>
                (bulk.pc = "batch" /\ bulk.inflight = 0)]_vars

\* The whole second batch is in flight at once.
C17_Witness ==
    /\ bulk.pc = "batch"
    /\ bulk.k = 2
    /\ bulk.inflight = 100

\* C18: a bulk call that has returned reports success exactly when the
\* Notification of every recipient was stored.
C18_SuccessIffPersisted ==
    bulk.pc = "done" => (bulk.result <=> bulk.persisted = Len(bulk.userIds))

----------------------------------------------------------------------------
(* Claims about rejected requests *)

\* A step of the create handler, in a specification whose other actions are
\* steps of a submission.
CreateStep == sreq' = sreq /\ resp'.op = "create"

\* The step of a submission that ends it with the given status.
SubmitEnds(status) ==
    /\ sreq[1].pc = "idle"
    /\ sreq'[1].pc = "done"
    /\ sreq'[1].status = status

NothingStored == UNCHANGED <<alerts, alertCount, reports, users, notifs>>

\* C24: a create or submit request without coordinates, with an unknown type
\* or severity or without a required field is rejected and changes nothing:
\* no alert or report is stored, no user changes, nothing is broadcast or
\* notified; every stored alert and report has a known type and severity and
\* its required fields.
C24_RejectedBeforeMutation ==
    [][/\ (CreateStep /\ resp'.status = 400) =>
              (NothingStored /\ DOMAIN resp' = {"op", "status", "coordinates"})
       /\ (CreateStep /\ resp'.status = 500 /\ resp'.error = "ValidationError") =>
              (NothingStored /\ DOMAIN resp' = {"op", "status", "error"})
       /\ (SubmitEnds(400) \/ (SubmitEnds(500) /\ sreq'[1].error = "ValidationError")) =>
              (NothingStored /\ "events" \notin DOMAIN sreq'[1]
                             /\ "pointsEarned" \notin DOMAIN sreq'[1])
       /\ \A id \in DOMAIN alerts' :
              /\ alerts'[id].type \in {"cyclone", "tsunami", "flood", "pollution",
                                        "storm_surge", "erosion", "other"}
              /\ alerts'[id].severity \in {"low", "medium", "high", "critical"}
              /\ alerts'[id].source # Missing
       /\ \A id \in DOMAIN reports' :
              /\ reports'[id].type \in {"erosion", "pollution", "weather", "wildlife",
                                         "infrastructure", "tsunami", "other"}
              /\ reports'[id].severity \in {"low", "medium", "high", "critical"}
              /\ reports'[id].description # Missing]_vars

\* A create with an unknown type and a submission with an unknown severity
\* have both been rejected, and nothing is stored.
C24_Witness ==
    /\ resp.op = "create"
    /\ resp.status = 500
    /\ resp.error = "ValidationError"
    /\ sreq[1].pc = "done"
    /\ sreq[1].status = 500
    /\ sreq[1].error = "ValidationError"
    /\ alerts = <<>>
    /\ reports = <<>>
    /\ users["u1"] = NewUser

\* Longitude in [-180, 180] and latitude in [-90, 90], in hundredths.
InRange(point) ==
    /\ point # NoPoint
    /\ point.lng >= -18000 /\ point.lng <= 18000
    /\ point.lat >= -9000 /\ point.lat <= 9000

\* C25: a create or submit request rejected for its location has no point or
\* a point out of range: every point in range, latitude 0 and longitude 0
\* included, is accepted.
C25_InRangeAccepted ==
    /\ (resp.op = "create" /\ resp.status = 400) => ~InRange(resp.coordinates)
    /\ (sreq[1].pc = "done" /\ sreq[1].status = 400) => ~InRange(sreq[1].location)

\* C27: a create or a submission whose primary write the store refuses
\* reports a failure and does nothing else: nothing is stored, no user
\* changes, nothing is broadcast or notified, and a failed submission has
\* taken no step after its save.
C27_PrimaryWriteFailure ==
    [][/\ (CreateStep /\ resp'.status = 500 /\ resp'.error = "StoreError") =>
              (NothingStored /\ DOMAIN resp' = {"op", "status", "error"})
       /\ (sreq'[1].pc = "done" /\ sreq'[1].status = 500 /\ sreq[1].pc # "done") =>
              /\ sreq[1].pc = "idle"
              /\ NothingStored
              /\ DOMAIN sreq'[1] = {"pc", "status", "user", "error"}]_vars

\* The store has refused the alert of a create and the report of a
\* submission: nothing is stored and the user is as before.
C27_Witness ==
    /\ resp.op = "create"
    /\ resp.status = 500
    /\ resp.error = "StoreError"
    /\ sreq[1].pc = "done"
    /\ sreq[1].status = 500
    /\ sreq[1].error = "StoreError"
    /\ alerts = <<>>
    /\ reports = <<>>
    /\ users["u1"] = NewUser

----------------------------------------------------------------------------
(* Claims about verification, comments and unknown ids *)

\* A step of the verify, comment, update or deactivate handler, in a
\* specification whose other steps belong to a vote.
ResponseStep == vreq' = vreq /\ "status" \in DOMAIN resp'

\* C26: update and deactivate of an unknown alert, and verify, vote and
\* comment on an unknown report, answer 404 and change nothing: no alert, no
\* report, no user and no notification changes and nothing is broadcast.
C26_UnknownIdRejected ==
    [][/\ (ResponseStep /\ resp'.status = 404) =>
              (NothingStored /\ DOMAIN resp' = {"op", "status"})
       /\ (ResponseStep /\ resp'.status = 200 /\ resp'.op \in {"verify", "comment"}) =>
              resp'.id \in DOMAIN reports
       /\ (ResponseStep /\ resp'.status = 200 /\ resp'.op \in {"update", "deactivate"}) =>
              resp'.id \in DOMAIN alerts
       /\ (vreq[1].pc = "idle" /\ vreq'[1].pc # "idle") =>
              IF vreq'[1].id \in DOMAIN reports
              THEN ~(vreq'[1].pc = "done" /\ vreq'[1].status = 404)
              ELSE /\ vreq'[1].pc = "done"
                   /\ vreq'[1].status = 404
                   /\ NothingStored
                   /\ resp' = resp]_vars

\* With an alert and a report stored, a request on an unknown alert and a
\* vote on an unknown report have been answered 404.
C26_Witness ==
    /\ resp.op \in {"update", "deactivate"}
    /\ resp.status = 404
    /\ vreq[1].pc = "done"
    /\ vreq[1].status = 404
    /\ 1 \in DOMAIN alerts
    /\ reports[1].status = "pending"
    /\ reports[1].comments = <<>>
    /\ users["u1"].points = 100
    /\ notifs = <<>>

VerifyStep(verified) ==
    /\ ResponseStep
    /\ resp'.op = "verify"
    /\ resp'.status = 200
    /\ resp'.verified = verified

C38_BonusAtMostOnce ==
    /\ users["u1"].points <= 100 + 25
    /\ Cardinality({k \in DOMAIN notifs : notifs[k].title = "Report Verified!"}) <= 1

StatusRank(status) ==
    CASE status = "pending" -> 0
      [] status = "processing" -> 1
      [] status \in {"verified", "rejected"} -> 2
      [] status = "resolved" -> 3

\* C29: the status of a report stays or moves forward along
\* pending -> processing -> verified | rejected -> resolved; a verified
\* report never becomes rejected and a rejected report never verified.
C29_StatusMovesForward ==
    [][\A id \in DOMAIN reports :
          \/ reports'[id].status = reports[id].status
          \/ StatusRank(reports[id].status) < StatusRank(reports'[id].status)]_vars

----------------------------------------------------------------------------
(* Claims about the badge set *)

\* C30: no step removes a badge from a user: every badge a user holds before
\* a step is held after it, and the badge list never gets shorter, also when
\* submissions, votes and verifications of the same user's reports interleave.
C30_BadgesOnlyGrow ==
    [][\A u \in Users :
          /\ Len(users'[u].badges) >= Len(users[u].badges)
          /\ \A k \in DOMAIN users[u].badges :
                \E j \in DOMAIN users'[u].badges :
                    users'[u].badges[j] = users[u].badges[k]]_vars

\* Two interleaved submissions of u1 are answered, u1 holds the badge
\* unlocked by them and has been credited points since.
C30_Witness ==
    /\ \A s \in SubmitSlots : sreq[s].pc = "done" /\ sreq[s].status = 201
    /\ \E k \in DOMAIN users["u1"].badges : users["u1"].badges[k] = "Weather Watcher"
    /\ reports[1].verified

----------------------------------------------------------------------------
(* Claims about the rewards of an achievement evaluation *)

\* C31: an achievement evaluation that finds k new badges appends exactly
\* these k badges to the user's badge list, credits exactly 100 * k points
\* and sends k notifications, one per badge.
C31_AwardAndNotify ==
    [][(now' = now /\ resp'.op = "achievements") =>
          LET u == resp'.user
              k == Len(users'[u].badges) - Len(users[u].badges) IN
          /\ k >= 0
          /\ SubSeq(users'[u].badges, 1, Len(users[u].badges)) = users[u].badges
          /\ users'[u].points = users[u].points + 100 * k
          /\ Len(notifs') = Len(notifs) + k]_vars

----------------------------------------------------------------------------
(* Claims about escalation *)

C35_ThresholdInclusive ==
    (sreq[1].pc = "done" /\ sreq[1].status = 201) =>
        LET rep == reports[sreq[1].id] IN
        (rep.severity = "critical" /\ rep.type \in AlertTypes) =>
            (AutoGenerated # {} <=> (rep.aiConfidence # NoNum /\ rep.aiConfidence >= 80))

\* C37: every stored alert has a type of the alert enum, a severity of the
\* severity enum and, if it has a confidence, one between 0 and 100, after
\* any sequence of create, update and auto-escalation.
C37_StoredAlertsValid ==
    \A id \in DOMAIN alerts :
        /\ alerts[id].type \in {"cyclone", "tsunami", "flood", "pollution",
                                 "storm_surge", "erosion", "other"}
        /\ alerts[id].severity \in {"low", "medium", "high", "critical"}
        /\ \/ alerts[id].confidence = NoNum
           \/ (alerts[id].confidence >= 0 /\ alerts[id].confidence <= 100)

----------------------------------------------------------------------------
(* Claims about achievements and streaks under repeated submissions *)

Holds(u, name) == \E k \in DOMAIN users[u].badges : users[u].badges[k] = name

\* The achievement evaluation of the submission in slot s has completed.
Evaluated(s) == sreq[s].pc \in {"escalate", "notify"} \/ (sreq[s].pc = "done" /\ sreq[s].status = 201)

\* C36: once the achievement evaluation of a submission has completed, the
\* user holds every badge whose threshold the user's counters meet: First
\* Reporter with at least one report, Weather Watcher with 10 weather
\* reports, Community Hero with 100 reports, Accuracy Expert with 20 reports
\* of which 80% are verified, Streak Master with a streak of 30; also when
\* the user's first two submissions are processed concurrently.
C36_QualifyingBadgesHeld ==
    \A s \in SubmitSlots : Evaluated(s) =>
        LET u == sreq[s].user IN
        /\ TotalReports(u) >= 1 => Holds(u, "First Reporter")
        /\ WeatherReports(u) >= 10 => Holds(u, "Weather Watcher")
        /\ TotalReports(u) >= 100 => Holds(u, "Community Hero")
        /\ (TotalReports(u) >= 20 /\ 5 * VerifiedReports(u) >= 4 * TotalReports(u))
              => Holds(u, "Accuracy Expert")
        /\ users[u].streak >= 30 => Holds(u, "Streak Master")

\* The submission in slot s has passed its streak update.
StreakUpdated(s) ==
    \/ sreq[s].pc \in {"ach", "achSave", "escalate", "notify"}
    \/ (sreq[s].pc = "done" /\ sreq[s].status = 201)

\* C39: within one day, once a submission of a user has updated the streak,
\* no step of a further submission of that user changes the streak.
C39_StreakOncePerDay ==
    [][now' = now =>
          \A u \in Users :
              (\E s \in SubmitSlots : StreakUpdated(s) /\ sreq[s].user = u)
                  => users'[u].streak = users[u].streak]_vars

----------------------------------------------------------------------------
(* Claims about the order of the alert list *)

\* The order low < medium < high < critical.
SeverityLevel(sev) ==
    CASE sev = "low" -> 1
      [] sev = "medium" -> 2
      [] sev = "high" -> 3
      [] sev = "critical" -> 4

\* C40: the list query returns the alerts from most to least severe under
\* low < medium < high < critical, the newest first among alerts of equal
\* severity.
C40_MostSevereFirst ==
    resp.op = "list" =>
        \A i, j \in DOMAIN resp.ids :
            (i < j /\ resp.ids[i] \in DOMAIN alerts /\ resp.ids[j] \in DOMAIN alerts) =>
                LET a == alerts[resp.ids[i]]
                    b == alerts[resp.ids[j]] IN
                \/ SeverityLevel(a.severity) > SeverityLevel(b.severity)
                \/ /\ a.severity = b.severity
                   /\ a.createdAt >= b.createdAt

----------------------------------------------------------------------------
(* Claims about geofences *)

\* C33: once a submission has been answered, the users notified are, for a
\* report of severity medium, high or critical, exactly the users other than
\* the author located within 10 km of the report, and nobody for a report of
\* severity low.
C33_NearbyNotified ==
    (sreq[1].pc = "done" /\ sreq[1].status = 201) =>
        LET rep == reports[sreq[1].id] IN
        sreq[1].notified =
            IF rep.severity = "low"
            THEN {}
            ELSE LocatedWithin(rep.location, 10) \ {rep.userId}

\* C34: a geofence query for users returns exactly the users whose
\* great-circle distance from the center is at most the radius (the author
\* excepted in the nearby-users query).
C34_GeofenceExact ==
    /\ resp.op = "affected" => resp.found = LocatedWithin(resp.center, resp.radius)
    /\ resp.op = "nearby" =>
          resp.found = LocatedWithin(resp.center, resp.radius) \ {resp.author}

====
